---- MODULE Spec2Model ----
(***************************************************************************)
(* project_reporter: validation of a Project at construction               *)
(* (project.py) and the cost join / aggregation over its timesheet         *)
(* (main.py).                                                              *)
(*                                                                         *)
(* Python values are records [type, val]: a float, an int, NaN, a str or   *)
(* None.  Amounts are small whole numbers, on which float arithmetic is    *)
(* exact.  A data frame is a record with its column set and its rows in    *)
(* order; a quotient a/b is kept as the pair [num, den].  An exception is  *)
(* a record with its message.                                              *)
(***************************************************************************)
EXTENDS Integers, Sequences, FiniteSets, TLC

VARIABLES
    pc,       \* "new" before Project(...) is called, then "built" or "failed";
              \* "returned" while the caller holds the outcome of a query
    args,     \* the arguments Project(...) was called with
    project,  \* the constructed Project, or NoProject
    error,    \* the exception raised by the last call, or NoError
    call,     \* the last query called on the project, with its flags
    result,   \* the data frame the last query returned, or NoResult
    other     \* the Project the last copy() returned, or NoProject

vars == <<pc, args, project, error, call, result, other>>

----------------------------------------------------------------------------
(* Bounds of the model *)

MaxEntries == 2   \* rows of a timesheet
BucketDays == 2   \* length in days of the period of the frequency passed as freq

----------------------------------------------------------------------------
(* Python values *)

Float(n) == [type |-> "float", val |-> n]
IntVal(n) == [type |-> "int", val |-> n]
NaN == [type |-> "nan", val |-> 0]
Str(n) == [type |-> "str", val |-> n]

\* isinstance(v, float): NaN is a float too
IsFloat(v) == v.type \in {"float", "nan"}

\* pandas isnull on a numeric cell, and on a name cell
IsNull(v) == v.type = "nan"
NullName == "<NaN>"

NoneVal == [type |-> "None", val |-> 0]

DataFrame(cols, rows) == [type |-> "DataFrame", columns |-> cols, rows |-> rows]
NoneDF == [type |-> "None", columns |-> {}, rows |-> <<>>]

NoError == [kind |-> "none", names |-> {}]
Raise(kind) == [kind |-> kind, names |-> {}]
RaiseNames(kind, D) == [kind |-> kind, names |-> D]

\* The messages of project.py lines 226, 259 and 265
BudgetMismatch == Raise("Invalid: Task budgets sum does not equal the project budget")
UnknownTasks(D) == RaiseNames("Invalid: Found tasks not in the project config", D)
UnknownWorkers(D) == RaiseNames("Invalid: Found workers not in the project config", D)

RECURSIVE SumSeq(_)
SumSeq(s) == IF s = <<>> THEN 0 ELSE Head(s) + SumSeq(Tail(s))

ColumnSet(f, c) == {f.rows[i][c] : i \in 1..Len(f.rows)}
ColumnVals(f, c) == [i \in 1..Len(f.rows) |-> f.rows[i][c].val]

----------------------------------------------------------------------------
(* Format checkers (project.py).  Each returns the exception it raises, or *)
(* NoError when it returns its argument.                                   *)

check_str(v) == IF v.type = "str" THEN NoError ELSE Raise("Invalid: expected str")

check_pos(v) ==
    IF v.type \in {"float", "int"} /\ v.val >= 0
    THEN NoError ELSE Raise("Invalid: value must be at least 0")

check_df_instance(f) ==
    IF f.type = "DataFrame" THEN NoError ELSE Raise("Invalid: expected DataFrame")

df_nonempty(f) ==
    IF f.rows = <<>> THEN Raise("Invalid: Not a nonempty data frame") ELSE NoError

check_df_header(f, expect_cols) ==
    IF f.columns # expect_cols
    THEN Raise("Invalid: Data frame lacks the correct header") ELSE NoError

NameColumns == {"task", "worker"}
NumberColumns == {"budget", "rate", "duration"}

df_no_nans(f) ==
    IF \E i \in 1..Len(f.rows) :
          \/ \E c \in f.columns \cap NameColumns : f.rows[i][c] = NullName
          \/ \E c \in f.columns \cap NumberColumns : IsNull(f.rows[i][c])
    THEN Raise("Invalid: NaNs found") ELSE NoError

check_df(f, expect_cols) ==
    IF check_df_instance(f) # NoError THEN check_df_instance(f)
    ELSE IF check_df_header(f, expect_cols) # NoError THEN check_df_header(f, expect_cols)
    ELSE df_no_nans(f)

\* As the comment of line 223 has it: "Check budget not exceeded"
check_tasks_df_not_exceeded(f, budget) ==
    IF check_df(f, {"task", "budget"}) # NoError THEN check_df(f, {"task", "budget"})
    ELSE IF \E i \in 1..Len(f.rows) : ~IsFloat(f.rows[i].budget)
    THEN Raise("Invalid: Found the non-numerical value")
    ELSE IF SumSeq(ColumnVals(f, "budget")) > budget.val
    THEN BudgetMismatch
    ELSE NoError
check_tasks_df(f, budget) ==
    IF check_df(f, {"task", "budget"}) # NoError THEN check_df(f, {"task", "budget"})
    ELSE IF \E i \in 1..Len(f.rows) : ~IsFloat(f.rows[i].budget)
    THEN Raise("Invalid: Found the non-numerical value")
    ELSE IF SumSeq(ColumnVals(f, "budget")) # budget.val
    THEN BudgetMismatch
    ELSE NoError

check_workers_df(f) ==
    IF check_df(f, {"worker", "rate"}) # NoError THEN check_df(f, {"worker", "rate"})
    ELSE IF \E i \in 1..Len(f.rows) : ~IsFloat(f.rows[i].rate)
    THEN Raise("Invalid: Found the non-numerical value")
    ELSE NoError

\* The set differences of lines 257 and 263 taken the other way round
check_timesheet_df_reversed(timesheet_df, tasks_df, workers_df) ==
    IF timesheet_df.type = "None"
    THEN Raise("AttributeError: 'NoneType' object has no attribute 'copy'")
    ELSE IF check_df(timesheet_df, {"date", "task", "worker", "duration"}) # NoError
    THEN check_df(timesheet_df, {"date", "task", "worker", "duration"})
    ELSE IF \E i \in 1..Len(timesheet_df.rows) : ~IsFloat(timesheet_df.rows[i].duration)
    THEN Raise("NameError: name 'name' is not defined")
    ELSE IF ColumnSet(tasks_df, "task") \ ColumnSet(timesheet_df, "task") # {}
    THEN UnknownTasks(ColumnSet(tasks_df, "task") \ ColumnSet(timesheet_df, "task"))
    ELSE IF ColumnSet(workers_df, "worker") \ ColumnSet(timesheet_df, "worker") # {}
    THEN UnknownWorkers(ColumnSet(workers_df, "worker") \ ColumnSet(timesheet_df, "worker"))
    ELSE NoError

\* Line 244 calls timesheet_df.copy() before the test for None of line 245, and
\* line 253 formats its message with the undefined variable `name`.
check_timesheet_df(timesheet_df, tasks_df, workers_df) ==
    IF timesheet_df.type = "None"
    THEN Raise("AttributeError: 'NoneType' object has no attribute 'copy'")
    ELSE IF check_df(timesheet_df, {"date", "task", "worker", "duration"}) # NoError
    THEN check_df(timesheet_df, {"date", "task", "worker", "duration"})
    ELSE IF \E i \in 1..Len(timesheet_df.rows) : ~IsFloat(timesheet_df.rows[i].duration)
    THEN Raise("NameError: name 'name' is not defined")
    ELSE IF ColumnSet(timesheet_df, "task") \ ColumnSet(tasks_df, "task") # {}
    THEN UnknownTasks(ColumnSet(timesheet_df, "task") \ ColumnSet(tasks_df, "task"))
    ELSE IF ColumnSet(timesheet_df, "worker") \ ColumnSet(workers_df, "worker") # {}
    THEN UnknownWorkers(ColumnSet(timesheet_df, "worker") \ ColumnSet(workers_df, "worker"))
    ELSE NoError

----------------------------------------------------------------------------
(* Project.__init__: the attributes are checked and assigned in order; the *)
(* first exception ends the construction.                                  *)

InitError(a) ==
    IF check_str(a.name) # NoError THEN check_str(a.name)
    ELSE IF check_str(a.description) # NoError THEN check_str(a.description)
    ELSE IF check_str(a.client) # NoError THEN check_str(a.client)
    ELSE IF check_pos(a.budget) # NoError THEN check_pos(a.budget)
    ELSE IF check_str(a.currency) # NoError THEN check_str(a.currency)
    ELSE IF check_tasks_df(a.tasks_df, a.budget) # NoError
    THEN check_tasks_df(a.tasks_df, a.budget)
    ELSE IF check_workers_df(a.workers_df) # NoError THEN check_workers_df(a.workers_df)
    ELSE check_timesheet_df(a.timesheet_df, a.tasks_df, a.workers_df)

NoProject == [name |-> NoneVal, description |-> NoneVal, client |-> NoneVal,
              budget |-> NoneVal, currency |-> NoneVal, tasks_df |-> NoneDF,
              workers_df |-> NoneDF, timesheet_df |-> NoneDF, constructed |-> FALSE]

Project(a) == [name |-> a.name, description |-> a.description, client |-> a.client,
               budget |-> a.budget, currency |-> a.currency, tasks_df |-> a.tasks_df,
               workers_df |-> a.workers_df, timesheet_df |-> a.timesheet_df,
               constructed |-> TRUE]

\* Project.copy: line 81 calls Project() with none of the seven arguments
\* that __init__ requires, so the call raises before any attribute is read.
copy_error(p) == Raise("TypeError: __init__() missing 7 required positional arguments")

copy(p) == [error |-> copy_error(p), other |-> NoProject]

----------------------------------------------------------------------------
(* compute_costs (main.py) *)

RECURSIVE Concat(_)
Concat(ss) == IF ss = <<>> THEN <<>> ELSE Head(ss) \o Concat(Tail(ss))

\* A row holding the cells of both rows
JoinRows(l, r) == [c \in DOMAIN l \cup DOMAIN r |-> IF c \in DOMAIN l THEN l[c] ELSE r[c]]

\* DataFrame.merge with its defaults: an inner join on the columns the two
\* frames share, in the order of the left frame's rows.
MatchesOf(l, g, on) == SelectSeq(g.rows, LAMBDA r : \A c \in on : r[c] = l[c])

merge(f, g) ==
    DataFrame(f.columns \cup g.columns,
              Concat([i \in 1..Len(f.rows) |->
                        [j \in 1..Len(MatchesOf(f.rows[i], g, f.columns \cap g.columns)) |->
                           JoinRows(f.rows[i],
                                    MatchesOf(f.rows[i], g, f.columns \cap g.columns)[j])]]))

rename(f, old, new) ==
    DataFrame((f.columns \ {old}) \cup {new},
              [i \in 1..Len(f.rows) |->
                 [c \in (DOMAIN f.rows[i] \ {old}) \cup {new} |->
                    IF c = new THEN f.rows[i][old] ELSE f.rows[i][c]]])

\* f[c] = cells, a cell for every row
assign(f, c, cells) ==
    DataFrame(f.columns \cup {c},
              [i \in 1..Len(f.rows) |->
                 [d \in DOMAIN f.rows[i] \cup {c} |->
                    IF d = c THEN cells[i] ELSE f.rows[i][d]]])

drop(f, c) ==
    DataFrame(f.columns \ {c},
              [i \in 1..Len(f.rows) |-> [d \in DOMAIN f.rows[i] \ {c} |-> f.rows[i][d]]])

\* a / b on floats, kept as the pair: b = 0 gives inf or nan, never an exception
Quotient(a, b) == [type |-> "float", num |-> a.val, den |-> b.val]

MissingTimesheet == Raise("ValueError: The project needs a timesheet for this operation")

compute_costs_error_unguarded(p) ==
    IF p.timesheet_df.type = "None"
    THEN Raise("AttributeError: 'NoneType' object has no attribute 'merge'") ELSE NoError
compute_costs_error(p) ==
    IF p.timesheet_df.type = "None" THEN MissingTimesheet ELSE NoError

\* f['duration']*f['rate'], f['cost']/f['task_budget'], f['cost']/project.budget
CostOf(f) == [i \in 1..Len(f.rows) |-> Float(f.rows[i].duration.val * f.rows[i].rate.val)]
CostOverTaskBudget(f) ==
    [i \in 1..Len(f.rows) |-> Quotient(f.rows[i].cost, f.rows[i].task_budget)]
CostOverProjectBudget(f, p) == [i \in 1..Len(f.rows) |-> Quotient(f.rows[i].cost, p.budget)]

compute_costs_frame(p) ==
    LET f == rename(merge(merge(p.timesheet_df, p.tasks_df), p.workers_df),
                    "budget", "task_budget")
        g == assign(f, "cost", CostOf(f))
        h == assign(g, "cost/task_budget", CostOverTaskBudget(g))
    IN  assign(h, "cost/project_budget", CostOverProjectBudget(h, p))

compute_costs(p) ==
    IF compute_costs_error(p) # NoError
    THEN [error |-> compute_costs_error(p), frame |-> DataFrame({}, <<>>)]
    ELSE [error |-> NoError, frame |-> compute_costs_frame(p)]

\* As if line 22 bound f to project.timesheet_df itself: the columns of lines
\* 24-31 would then be written into the project's timesheet
compute_costs_project_inplace(p) ==
    IF compute_costs_error(p) # NoError THEN p
    ELSE [p EXCEPT !.timesheet_df = compute_costs_frame(p)]
\* The project after compute_costs(project): its attributes are only read.
\* f is the frame merge returns, a new object, and every write of lines
\* 24-31 is to f or rebinds f.
compute_costs_project(p) == p

----------------------------------------------------------------------------
(* summarize (main.py) *)

\* The names in sorted order, as groupby sorts its keys
NameOrder == <<"T1", "T2", "W1", "W2">>
Rank(name) == CHOOSE i \in 1..Len(NameOrder) : NameOrder[i] = name

\* TimeGrouper(freq, label='left'): the first day of the period a date falls in
Bucket(date) == (date \div BucketDays) * BucketDays

\* cols of summarize: task and worker as asked for, the time grouper inserted first
GroupColumns(by_task, by_worker, freq) ==
    (IF freq THEN <<"date">> ELSE <<>>)
    \o (IF by_task THEN <<"task">> ELSE <<>>)
    \o (IF by_worker THEN <<"worker">> ELSE <<>>)

KeyCell(row, c, freq) == IF c = "date" /\ freq THEN Bucket(row.date) ELSE row[c]
KeyOf(row, cols, freq) == [i \in 1..Len(cols) |-> KeyCell(row, cols[i], freq)]
KeyRank(row, cols, freq) ==
    [i \in 1..Len(cols) |->
       IF cols[i] = "date" THEN KeyCell(row, cols[i], freq) ELSE Rank(row[cols[i]])]

RECURSIVE LexLeq(_, _)
LexLeq(a, b) ==
    \/ a = <<>>
    \/ Head(a) < Head(b)
    \/ Head(a) = Head(b) /\ LexLeq(Tail(a), Tail(b))

\* The rows of s in the order of their keys, one row of each key
RECURSIVE SortedByKey(_, _, _)
SortedByKey(S, cols, freq) ==
    IF S = {} THEN <<>>
    ELSE LET m == CHOOSE r \in S :
                     \A q \in S : LexLeq(KeyRank(r, cols, freq), KeyRank(q, cols, freq))
         IN  <<m>> \o SortedByKey({q \in S : KeyRank(q, cols, freq) # KeyRank(m, cols, freq)},
                                  cols, freq)

my_agg(group) ==
    [duration |-> Float(SumSeq([i \in 1..Len(group) |-> group[i].duration.val])),
     rate |-> group[1].rate,
     cost |-> Float(SumSeq([i \in 1..Len(group) |-> group[i].cost.val])),
     task_budget |-> group[1].task_budget]

AggColumns == {"duration", "rate", "cost", "task_budget"}

\* f.groupby(cols).apply(my_agg).reset_index(): one row for each key among
\* the rows, in the order of the keys
groupby_apply(f, cols, freq) ==
    LET first == SortedByKey({f.rows[i] : i \in 1..Len(f.rows)}, cols, freq)
        group(k) == SelectSeq(f.rows, LAMBDA r : KeyOf(r, cols, freq) = k)
        keyrow(r) == [c \in {cols[i] : i \in 1..Len(cols)} |-> KeyCell(r, c, freq)]
    IN  DataFrame({cols[i] : i \in 1..Len(cols)} \cup AggColumns,
                  [n \in 1..Len(first) |->
                     JoinRows(keyrow(first[n]), my_agg(group(KeyOf(first[n], cols, freq))))])

\* Lines 66-73: the columns appended or dropped after the aggregation
shape_keep_rate(g, p, by_task, by_worker) ==
    LET h == IF by_task
             THEN assign(g, "cost/task_budget", CostOverTaskBudget(g))
             ELSE drop(g, "task_budget")
    IN  assign(h, "cost/project_budget", CostOverProjectBudget(h, p))
shape(g, p, by_task, by_worker) ==
    LET h == IF by_task
             THEN assign(g, "cost/task_budget", CostOverTaskBudget(g))
             ELSE drop(g, "task_budget")
        k == assign(h, "cost/project_budget", CostOverProjectBudget(h, p))
    IN  IF by_worker THEN k ELSE drop(k, "rate")

\* With no row to aggregate, my_agg of the whole frame fails at iat[0]; a
\* group-by of no rows gives a frame without the columns that lines 66-73
\* read or drop.
summarize_empty_error(by_task, by_worker, freq) ==
    IF ~by_task /\ ~by_worker /\ ~freq
    THEN Raise("IndexError: index out of bounds")
    ELSE IF by_task THEN Raise("KeyError: 'cost'")
    ELSE Raise("ValueError: labels ['task_budget'] not contained in axis")

summarize_error(p, by_task, by_worker, freq) ==
    IF p.timesheet_df.type = "None" THEN MissingTimesheet
    ELSE IF compute_costs(p).error # NoError THEN compute_costs(p).error
    ELSE IF compute_costs_frame(p).rows = <<>>
    THEN summarize_empty_error(by_task, by_worker, freq)
    ELSE NoError

summarize_frame(p, by_task, by_worker, freq) ==
    LET f == compute_costs_frame(p)
        cols == GroupColumns(by_task, by_worker, freq)
        g == IF cols = <<>>
             THEN DataFrame(AggColumns, <<my_agg(f.rows)>>)
             ELSE groupby_apply(f, cols, freq)
    IN  shape(g, p, by_task, by_worker)

summarize(p, by_task, by_worker, freq) ==
    IF summarize_error(p, by_task, by_worker, freq) # NoError
    THEN [error |-> summarize_error(p, by_task, by_worker, freq),
          frame |-> DataFrame({}, <<>>)]
    ELSE [error |-> NoError, frame |-> summarize_frame(p, by_task, by_worker, freq)]

\* The project after summarize(project, ...): past the guard of line 38 the
\* project is passed to compute_costs (line 49) and its budget is read; the
\* writes of lines 65-73 are to g, the frame the aggregation built.
summarize_project(p, by_task, by_worker, freq) ==
    IF p.timesheet_df.type = "None" THEN p ELSE compute_costs_project(p)

----------------------------------------------------------------------------
(* Arguments of Project(...) *)

SeqsUpTo(S, n) == UNION {[1..k -> S] : k \in 0..n}

TaskNames == {"T1", "T2"}
WorkerNames == {"W1", "W2"}
\* Task budgets and rates; the durations logged; the days worked
Amounts == {Float(1), Float(2)}
Durations == {Float(2)}
Dates == {1, 2}

TasksHeader == {"task", "budget"}
WorkersHeader == {"worker", "rate"}
TimesheetHeader == {"date", "task", "worker", "duration"}

\* Well-typed tables: float amounts, names of the project
TaskRows == [task : TaskNames, budget : Amounts]
WorkerRows == [worker : WorkerNames, rate : Amounts]
EntryRows == [date : Dates, task : TaskNames, worker : WorkerNames, duration : Durations]

\* Tables of up to two rows, which may declare a name twice
TasksTables == {DataFrame(TasksHeader, r) : r \in SeqsUpTo(TaskRows, 2)}
WorkersTables == {DataFrame(WorkersHeader, r) : r \in SeqsUpTo(WorkerRows, 2)}
Timesheets == {DataFrame(TimesheetHeader, r) : r \in SeqsUpTo(EntryRows, MaxEntries)}

\* Tables with a defect: a cell that is an int, NaN, zero or negative, a
\* missing name, a header with a column missing or added, or no table at all
WideCells == {Float(n) : n \in -1..2} \cup {IntVal(1), NaN}
WideBudgets == {Float(n) : n \in -1..3} \cup {IntVal(1), NaN}

NotTables(header, column) ==
    {NoneDF, DataFrame(header \ {column}, <<>>), DataFrame(header \cup {"extra"}, <<>>)}

WideTaskRows ==
    [task : TaskNames, budget : WideCells] \cup {[task |-> NullName, budget |-> Float(1)]}
WideWorkerRows ==
    [worker : WorkerNames, rate : WideCells] \cup {[worker |-> NullName, rate |-> Float(1)]}
WideEntryRows ==
    [date : {1}, task : TaskNames, worker : WorkerNames,
     duration : {Float(-1), Float(2), IntVal(1), NaN}]
    \cup {[date |-> 1, task |-> NullName, worker |-> "W1", duration |-> Float(1)],
          [date |-> 1, task |-> "T1", worker |-> NullName, duration |-> Float(1)]}

WideTasksTables ==
    {DataFrame(TasksHeader, r) : r \in SeqsUpTo(WideTaskRows, 2)}
    \cup NotTables(TasksHeader, "budget")
WideWorkersTables ==
    {DataFrame(WorkersHeader, r) : r \in SeqsUpTo(WideWorkerRows, 2)}
    \cup NotTables(WorkersHeader, "rate")
WideTimesheets ==
    {DataFrame(TimesheetHeader, r) : r \in SeqsUpTo(WideEntryRows, MaxEntries)}
    \cup NotTables(TimesheetHeader, "duration")

\* Well-typed tables of at most one row, beside a table with a defect
SmallTasksTables == {DataFrame(TasksHeader, r) : r \in SeqsUpTo(TaskRows, 1)}
SmallWorkersTables == {DataFrame(WorkersHeader, r) : r \in SeqsUpTo(WorkerRows, 1)}
SmallTimesheets == {DataFrame(TimesheetHeader, r) : r \in SeqsUpTo(EntryRows, 1)}

NoArgs == [name |-> NoneVal, description |-> NoneVal, client |-> NoneVal,
           budget |-> NoneVal, currency |-> NoneVal, tasks_df |-> NoneDF,
           workers_df |-> NoneDF, timesheet_df |-> NoneDF]

NoCall == [op |-> "none", by_task |-> FALSE, by_worker |-> FALSE, freq |-> FALSE]
NoResult == DataFrame({}, <<>>)

\* The budget that the rows of a tasks table sum to
BudgetOf(f) == Float(SumSeq(ColumnVals(f, "budget")))

----------------------------------------------------------------------------
(* Actions *)

Init ==
    /\ pc = "new"
    /\ args = NoArgs
    /\ project = NoProject
    /\ error = NoError
    /\ call = NoCall
    /\ result = NoResult
    /\ other = NoProject

\* p = Project(**a)
Construct(a) ==
    /\ pc = "new"
    /\ args' = a
    /\ error' = InitError(a)
    /\ project' = IF InitError(a) = NoError THEN Project(a) ELSE NoProject
    /\ pc' = IF InitError(a) = NoError THEN "built" ELSE "failed"
    /\ UNCHANGED <<call, result, other>>

\* compute_costs(project)
ComputeCosts ==
    /\ pc = "built"
    /\ call' = [op |-> "compute_costs", by_task |-> FALSE, by_worker |-> FALSE,
                freq |-> FALSE]
    /\ \E r \in {compute_costs(project)} : error' = r.error /\ result' = r.frame
    /\ project' = compute_costs_project(project)
    /\ pc' = "returned"
    /\ UNCHANGED <<args, other>>

\* summarize(project, by_task, by_worker, freq)
Summarize(by_task, by_worker, freq) ==
    /\ pc = "built"
    /\ call' = [op |-> "summarize", by_task |-> by_task, by_worker |-> by_worker,
                freq |-> freq]
    /\ \E r \in {summarize(project, by_task, by_worker, freq)} :
          error' = r.error /\ result' = r.frame
    /\ project' = summarize_project(project, by_task, by_worker, freq)
    /\ pc' = "returned"
    /\ UNCHANGED <<args, other>>

\* project.copy()
Copy ==
    /\ pc = "built"
    /\ call' = [op |-> "copy", by_task |-> FALSE, by_worker |-> FALSE, freq |-> FALSE]
    /\ \E r \in {copy(project)} : error' = r.error /\ other' = r.other
    /\ pc' = "returned"
    /\ UNCHANGED <<args, project, result>>

\* The caller is done with what the call returned or raised, and may call again
Discard ==
    /\ pc = "returned"
    /\ pc' = "built"
    /\ call' = NoCall
    /\ error' = NoError
    /\ result' = NoResult
    /\ other' = NoProject
    /\ UNCHANGED <<args, project>>

MkArgs(n, b, t, w, s) ==
    [name |-> n[1], description |-> n[2], client |-> n[3], budget |-> b,
     currency |-> n[4], tasks_df |-> t, workers_df |-> w, timesheet_df |-> s]

AllStr == <<Str(0), Str(0), Str(0), Str(0)>>

ConstructWellTyped ==
    /\ pc = "new"
    /\ \E t \in TasksTables, w \in WorkersTables, s \in Timesheets :
          Construct(MkArgs(AllStr, BudgetOf(t), t, w, s))

\* Project(...) with a name, description, client or currency that may be no
\* str, and any budget
ConstructScalars ==
    /\ pc = "new"
    /\ \E n \in [1..4 -> {Str(0), NoneVal}], b \in WideBudgets, t \in SmallTasksTables,
          w \in SmallWorkersTables, s \in SmallTimesheets :
          Construct(MkArgs(n, b, t, w, s))

ConstructTasks ==
    /\ pc = "new"
    /\ \E b \in WideBudgets, t \in WideTasksTables, w \in SmallWorkersTables,
          s \in SmallTimesheets :
          Construct(MkArgs(AllStr, b, t, w, s))

ConstructWorkers ==
    /\ pc = "new"
    /\ \E t \in SmallTasksTables, w \in WideWorkersTables, s \in SmallTimesheets :
          Construct(MkArgs(AllStr, BudgetOf(t), t, w, s))

ConstructTimesheet ==
    /\ pc = "new"
    /\ \E t \in SmallTasksTables, w \in SmallWorkersTables, s \in WideTimesheets :
          Construct(MkArgs(AllStr, BudgetOf(t), t, w, s))

Next ==
    \/ ConstructWellTyped
    \/ ConstructScalars
    \/ ConstructTasks
    \/ ConstructWorkers
    \/ ConstructTimesheet
    \/ ComputeCosts
    \/ Copy
    \/ Discard
    \/ \E by_task \in BOOLEAN, by_worker \in BOOLEAN, freq \in BOOLEAN :
          Summarize(by_task, by_worker, freq)

Spec == Init /\ [][Next]_vars

----------------------------------------------------------------------------
(* Queries on a Project whose timesheet_df attribute is None: what          *)
(* read_project without a timesheet path is written to produce, and what    *)
(* assigning the attribute gives.                                           *)

InitQuery ==
    /\ pc = "built"
    /\ args = NoArgs
    /\ \E t \in TasksTables, w \in WorkersTables :
          project = Project(MkArgs(AllStr, BudgetOf(t), t, w, NoneDF))
    /\ error = NoError
    /\ call = NoCall
    /\ result = NoResult
    /\ other = NoProject

NextQuery ==
    \/ ComputeCosts
    \/ Discard
    \/ \E by_task \in BOOLEAN, by_worker \in BOOLEAN, freq \in BOOLEAN :
          Summarize(by_task, by_worker, freq)

SpecQuery == InitQuery /\ [][NextQuery]_vars

----------------------------------------------------------------------------
(* Properties *)

Called == pc \in {"built", "failed"} /\ call = NoCall /\ args # NoArgs

IsNumber(v) == v.type \in {"float", "int"}

\* A data frame with the given header whose cells in column c are numbers
IsTableOf(f, header, c) ==
    /\ f.type = "DataFrame"
    /\ f.columns = header
    /\ \A i \in 1..Len(f.rows) : IsNumber(f.rows[i][c])

\* Every check that Project.__init__ makes before it sums the task budgets passes
PassesBeforeSum(a) ==
    /\ \A v \in {a.name, a.description, a.client, a.currency} : v.type = "str"
    /\ IsNumber(a.budget) /\ a.budget.val >= 0
    /\ IsTableOf(a.tasks_df, TasksHeader, "budget")
    /\ \A i \in 1..Len(a.tasks_df.rows) :
          a.tasks_df.rows[i].budget.type = "float" /\ a.tasks_df.rows[i].task # NullName

SumDiffers(a) ==
    /\ IsNumber(a.budget)
    /\ IsTableOf(a.tasks_df, TasksHeader, "budget")
    /\ SumSeq(ColumnVals(a.tasks_df, "budget")) # a.budget.val

WorkersPass(a) ==
    /\ IsTableOf(a.workers_df, WorkersHeader, "rate")
    /\ \A i \in 1..Len(a.workers_df.rows) :
          a.workers_df.rows[i].rate.type = "float" /\ a.workers_df.rows[i].worker # NullName

\* The timesheet passes the checks made before its names are looked up
TimesheetPasses(a) ==
    /\ IsTableOf(a.timesheet_df, TimesheetHeader, "duration")
    /\ \A i \in 1..Len(a.timesheet_df.rows) :
          /\ a.timesheet_df.rows[i].duration.type = "float"
          /\ a.timesheet_df.rows[i].task # NullName
          /\ a.timesheet_df.rows[i].worker # NullName

PassesBeforeReferences(a) ==
    /\ PassesBeforeSum(a) /\ ~SumDiffers(a)
    /\ WorkersPass(a)
    /\ TimesheetPasses(a)

UnknownTaskNames(a) == ColumnSet(a.timesheet_df, "task") \ ColumnSet(a.tasks_df, "task")
UnknownWorkerNames(a) ==
    ColumnSet(a.timesheet_df, "worker") \ ColumnSet(a.workers_df, "worker")

\* The three tables are data frames with their headers, so that the names
\* of the timesheet and the declared names are defined
HaveNames(a) ==
    /\ a.tasks_df.type = "DataFrame" /\ a.tasks_df.columns = TasksHeader
    /\ a.workers_df.type = "DataFrame" /\ a.workers_df.columns = WorkersHeader
    /\ a.timesheet_df.type = "DataFrame" /\ a.timesheet_df.columns = TimesheetHeader

ReferencesDeclared(p) ==
    \A i \in 1..Len(p.timesheet_df.rows) :
        /\ p.timesheet_df.rows[i].task \in ColumnSet(p.tasks_df, "task")
        /\ p.timesheet_df.rows[i].worker \in ColumnSet(p.workers_df, "worker")

\* C2 as stated: a timesheet naming a task absent from the tasks table, or a
\* worker absent from the workers table, makes construction fail with the
\* unknown-reference error reporting exactly the unknown names; every entry of
\* a constructed Project names a declared task and a declared worker.
C2_AsStated ==
    /\ Called /\ HaveNames(args)
        /\ (UnknownTaskNames(args) # {} \/ UnknownWorkerNames(args) # {}) =>
          /\ pc = "failed"
          /\ \/ error = UnknownTasks(UnknownTaskNames(args))
             \/ error = UnknownWorkers(UnknownWorkerNames(args))
    /\ pc = "built" => ReferencesDeclared(project)

\* C2 (amended): a timesheet naming a task absent from the tasks table, or a
\* worker absent from the workers table, makes construction fail; when every
\* check made before the names are looked up passes, the error is the
\* unknown-reference error for tasks reporting exactly the unknown task names
\* if there are any, and else the one for workers reporting exactly the
\* unknown worker names; every entry of a constructed Project names a declared
\* task and a declared worker.
C2_UnknownReference ==
    /\ Called /\ HaveNames(args)
        /\ (UnknownTaskNames(args) # {} \/ UnknownWorkerNames(args) # {}) =>
          /\ pc = "failed" /\ project = NoProject /\ error # NoError
          /\ PassesBeforeReferences(args) =>
                error = IF UnknownTaskNames(args) # {}
                        THEN UnknownTasks(UnknownTaskNames(args))
                        ELSE UnknownWorkers(UnknownWorkerNames(args))
    /\ pc \in {"built", "returned"} => ReferencesDeclared(project)

C2_Witness ==
    /\ pc = "failed" /\ PassesBeforeReferences(args)
    /\ Len(args.timesheet_df.rows) = 2
    /\ UnknownTaskNames(args) = {}
    /\ error = UnknownWorkers({"W2"})
    /\ ColumnSet(args.timesheet_df, "worker") = {"W1", "W2"}

\* C3: constructing a Project from valid fields and no timesheet succeeds, and
\* the timesheet of the Project is absent.
C3_TimesheetOptional ==
    Called /\ args.timesheet_df = NoneDF /\ PassesBeforeSum(args) /\ ~SumDiffers(args)
        /\ WorkersPass(args) =>
          pc = "built" /\ error = NoError /\ project.timesheet_df = NoneDF

Returned(op) == pc = "returned" /\ call.op = op /\ project.timesheet_df.type = "DataFrame"

Entries == project.timesheet_df.rows

\* The cost row r is the entry e with the rate of its worker, the budget of
\* its task and their cost
IsCostRowOf(r, e) ==
    /\ r.date = e.date /\ r.task = e.task /\ r.worker = e.worker
    /\ r.duration = e.duration
    /\ \E i \in 1..Len(project.workers_df.rows) :
          /\ project.workers_df.rows[i].worker = e.worker
          /\ r.rate = project.workers_df.rows[i].rate
    /\ \E i \in 1..Len(project.tasks_df.rows) :
          /\ project.tasks_df.rows[i].task = e.task
          /\ r.task_budget = project.tasks_df.rows[i].budget
    /\ r.cost = Float(r.duration.val * r.rate.val)

\* C4: compute_costs on a constructed Project with a timesheet of N entries
\* returns N cost rows, one for each entry, each with the rate of the entry's
\* worker, the budget of the entry's task and cost = duration * rate.
C4_OneCostRowPerEntry ==
    Returned("compute_costs") =>
        /\ error = NoError
        /\ Len(result.rows) = Len(Entries)
        /\ \E f \in [1..Len(Entries) -> 1..Len(Entries)] :
              /\ \A i, j \in 1..Len(Entries) : f[i] = f[j] => i = j
              /\ \A i \in 1..Len(Entries) : IsCostRowOf(result.rows[i], Entries[f[i]])

\* C5: on a Project whose timesheet is absent, compute_costs and summarize,
\* whatever its grouping, fail with the missing-timesheet error and return
\* nothing.
C5_MissingTimesheet ==
    pc = "returned" /\ project.timesheet_df = NoneDF =>
        error = MissingTimesheet /\ result = NoResult

C5_Witness ==
    /\ pc = "returned" /\ project.timesheet_df = NoneDF
    /\ call.op = "summarize" /\ call.by_task /\ call.by_worker /\ call.freq
    /\ error = MissingTimesheet

\* The rate of a worker and the budget of a task, as declared
RateOf(worker) ==
    (CHOOSE r \in ColumnSet(project.workers_df, "rate") :
        \E i \in 1..Len(project.workers_df.rows) :
            project.workers_df.rows[i] = [worker |-> worker, rate |-> r]).val
EntryCost(e) == e.duration.val * RateOf(e.worker)
EntriesOf(task) == SelectSeq(Entries, LAMBDA e : e.task = task)
TotalDuration(es) == SumSeq([i \in 1..Len(es) |-> es[i].duration.val])
TotalCost(es) == SumSeq([i \in 1..Len(es) |-> EntryCost(es[i])])

\* C6: summarize with no grouping key, on a Project whose timesheet has
\* entries, returns one row, with the sum of the durations of all entries,
\* the sum of their costs, and that cost over the budget of the project.
C6_OneRowOfTotals ==
    Returned("summarize") /\ ~call.by_task /\ ~call.by_worker /\ ~call.freq
        /\ Entries # <<>> =>
        /\ error = NoError
        /\ Len(result.rows) = 1
        /\ result.rows[1].duration = Float(TotalDuration(Entries))
        /\ result.rows[1].cost = Float(TotalCost(Entries))
        /\ result.rows[1]["cost/project_budget"] = Quotient(Float(TotalCost(Entries)),
                                                           project.budget)

\* C7: summarize(by_task=True), on a Project whose timesheet has entries,
\* returns one row for each task that has entries, with the sums of the
\* durations and costs of the entries of the task, and that summed cost over
\* the budget of the task.
C7_OneRowPerTask ==
    Returned("summarize") /\ call.by_task /\ ~call.by_worker /\ ~call.freq
        /\ Entries # <<>> =>
        /\ error = NoError
        /\ Len(result.rows) = Cardinality(ColumnSet(project.timesheet_df, "task"))
        /\ ColumnSet(result, "task") = ColumnSet(project.timesheet_df, "task")
        /\ \A i \in 1..Len(result.rows) :
              LET row == result.rows[i]
              IN  /\ row.duration = Float(TotalDuration(EntriesOf(row.task)))
                  /\ row.cost = Float(TotalCost(EntriesOf(row.task)))
                  /\ \A j \in 1..Len(project.tasks_df.rows) :
                        project.tasks_df.rows[j].task = row.task =>
                            row["cost/task_budget"] =
                                Quotient(row.cost, project.tasks_df.rows[j].budget)

\* The columns of the frame summarize returns, by its flags
ColumnsFor(by_task, by_worker, freq) ==
    {"duration", "cost", "cost/project_budget"}
    \cup (IF by_task THEN {"task", "task_budget", "cost/task_budget"} ELSE {})
    \cup (IF by_worker THEN {"worker", "rate"} ELSE {})
    \cup (IF freq THEN {"date"} ELSE {})

\* C8: the columns of the frame that summarize returns are set by its flags
\* alone: duration, cost and cost/project_budget always; task_budget and
\* cost/task_budget exactly when by_task; rate exactly when by_worker; and
\* the column of each grouping key exactly when the key was asked for.
C8_ColumnsByFlags ==
    Returned("summarize") /\ error = NoError =>
        /\ result.columns = ColumnsFor(call.by_task, call.by_worker, call.freq)
        /\ \A i \in 1..Len(result.rows) : DOMAIN result.rows[i] = result.columns

C8_Witness ==
    /\ Returned("summarize") /\ error = NoError
    /\ call.by_task /\ ~call.by_worker /\ call.freq
    /\ Len(result.rows) = 2
    /\ result.columns = {"date", "task", "duration", "cost", "task_budget",
                         "cost/task_budget", "cost/project_budget"}

IsEmptyTable(f, header) == f.type = "DataFrame" /\ f.columns = header /\ f.rows = <<>>

\* C9: a tasks table, a workers table or a timesheet with its columns and
\* no row makes construction fail with a validation error.
C9_EmptyTablesRejected ==
    Called /\ (\/ IsEmptyTable(args.tasks_df, TasksHeader)
               \/ IsEmptyTable(args.workers_df, WorkersHeader)
               \/ IsEmptyTable(args.timesheet_df, TimesheetHeader)) =>
        pc = "failed" /\ project = NoProject /\ error # NoError

\* C10: in a constructed Project no task budget and no rate is negative.
C10_NonNegativeAmounts ==
    pc \in {"built", "returned"} =>
        /\ \A i \in 1..Len(project.tasks_df.rows) : project.tasks_df.rows[i].budget.val >= 0
        /\ \A i \in 1..Len(project.workers_df.rows) : project.workers_df.rows[i].rate.val >= 0

\* C11: copy() on a constructed Project returns, without raising, a new
\* Project whose eight attributes equal the original's.
C11_CopyEqualsOriginal ==
    pc = "returned" /\ call.op = "copy" =>
        /\ error = NoError
        /\ other.constructed
        /\ \A k \in {"name", "description", "client", "budget", "currency",
                     "tasks_df", "workers_df", "timesheet_df"} : other[k] = project[k]

====
